---- MODULE Spec2Model ----
(***************************************************************************)
(* Face-tracking eyes (src/src/main.rs).                                   *)
(*                                                                         *)
(* Two execution contexts share one slot, FacePosition.position, an        *)
(* Arc<Mutex<Option<(f32, f32)>>>:                                         *)
(*   - the detection thread (run_face_detection, spawned by main) opens    *)
(*     the camera, loads the model and then loops capture -> decode ->     *)
(*     detect -> normalise -> publish;                                     *)
(*   - the render context calls eye_follow_face once per tick, which reads *)
(*     the slot and derives the target gaze.                               *)
(*                                                                         *)
(* Numbers.  A normalised coordinate (c / width) * 2 - 1 is kept as the    *)
(* exact numerator 2*c - width over the frame width (resp. height), which  *)
(* is fixed for a camera stream; -1 and 1 are -FrameW and FrameW.          *)
(*                                                                         *)
(* frame_count.  The counter is read only by frame_count % 60 == 0, which  *)
(* decides whether a line is printed; it is not kept, and the outcome of   *)
(* that test is drawn at the step that makes it.                           *)
(*                                                                         *)
(* Exit.  handle_input ends the process, and both contexts with it, on a   *)
(* quit key; the model describes the process while it runs.                *)
(*                                                                         *)
(* Memory.  The slot is wider than one machine word, so a store of         *)
(* Some((x, y)) and a copy of it are two steps each; only the mutex makes  *)
(* them indivisible.                                                       *)
(*                                                                         *)
(* Specifications.  Spec is the running program, FairSpec adds fair        *)
(* scheduling and SpecFault an injected panic.  In them the eye's rotation *)
(* is followed only as far as who assigns it (rotated).  The rotation      *)
(* itself is exact rational arithmetic whose values multiply with every    *)
(* tick, so the smoothing is followed in SpecSmooth and FairSmooth, where  *)
(* the slot keeps its value and a tick is one step.  SpecNorm, SpecGray    *)
(* and SpecGaze exercise the normalisation, create_gray_data and the       *)
(* target angles on arguments drawn at the start.                          *)
(***************************************************************************)
EXTENDS Integers, Sequences, FiniteSets

\* ---------------------------------------------------------------- bounds
FrameW == 2
FrameH == 2
MaxFaces == 2
MaxFails == 2
MaxUnread == 2
MaxDim == 3
MaxPixels == 2
MaxTicks == 4

VARIABLES
  dpc,          \* position of the detection thread
  fail,         \* why the detection thread ended before its loop ("none" if it did not)
  norm,         \* <<norm_x, norm_y>> of the current cycle (numerators)
  lock,         \* owner of the mutex: "free", "det" or "ren"
  poisoned,     \* the mutex's poison flag
  slot,         \* the Option<(f32, f32)> inside the mutex
  rpc,          \* position of the render tick
  lock_res,     \* outcome of lock() in the current tick: "na", "ok", "err"
  face_pos,     \* eye_follow_face's local face_pos
  target,       \* eye_follow_face's <<norm_x, norm_y>>
  seq,          \* history: id (mod 2) of the next publish
  slot_st,      \* history: id of the publish that stored slot.x, slot.y
  face_st,      \* history: id of the publishes face_pos.x, face_pos.y come from
  last_pub,     \* history: value of the most recent completed publish
  ev,           \* history: what the current loop iteration has done so far
  nfail,        \* history: consecutive capture failures, saturating at MaxFails
  unread,       \* history: publishes completed since the last read ended, saturating at MaxUnread
  faces,        \* the regions detector.detect returned in the current cycle
  writes,       \* history: assignments to the slot completed in the current cycle
  ever_pub,     \* history: the detection thread has assigned to the slot
  rotated,      \* history: the eye's rotation was assigned by the tick that ended last
                \* (cleared when the next tick starts)
  eye,          \* the eye's orientation (see Smoothing)
  pin,          \* argument of a function exercised on its own (see Pure functions)
  pout          \* its result

vars == <<dpc, fail, norm, lock, poisoned, slot, rpc, lock_res,
          face_pos, target, seq, slot_st, face_st, last_pub, ev, nfail, unread,
          faces, writes, ever_pub, rotated, eye, pin, pout>>

detVars == <<dpc, fail, norm, seq, ev, nfail, faces, writes, ever_pub>>
renVars == <<rpc, lock_res, face_pos, target, face_st, rotated>>
sideVars == <<eye, pin, pout>>

\* ------------------------------------------------------------------ values
None == [tag |-> "None", x |-> 0, y |-> 0]
Some(p) == [tag |-> "Some", x |-> p[1], y |-> p[2]]

\* A bounding box as rustface reports it: x, y are i32, width, height are u32.
\* A window scaled back to the frame may start outside of it.  Horizontally
\* every start and width is drawn; vertically the boxes are of height 1, in
\* the top or the bottom row.
Rects == [x : (0 - 1)..(FrameW - 1), y : {0, FrameH - 1},
          w : 1..FrameW, h : {1}]

\* Regions after the first one: the list is kept whole for one step, so
\* one box stands for all of them.
TailRects == {[x |-> FrameW - 1, y |-> FrameH - 1, w |-> 1, h |-> 1]}

\* What detector.detect may return: up to MaxFaces regions.
FaceLists == {<<>>} \cup
             {<<b>> \o t : b \in Rects,
                           t \in UNION {[1..n -> TailRects] : n \in 0..(MaxFaces - 1)}}

\* ----------------------------------------------------------- normalisation
CenterX(b) == b.x + (b.w \div 2)
CenterY(b) == b.y + (b.h \div 2)

\* Variant: the vertical axis is not inverted.
NormYOf_NoFlip(cy, height) == 2 * cy - height

\* (center_x / width) * 2 - 1 and -((center_y / height) * 2 - 1), as numerators
\* over width and height.
NormXOf(cx, width) == 2 * cx - width
NormYOf(cy, height) == 0 - (2 * cy - height)
NormalizeIn(b, width, height) ==
  <<NormXOf(CenterX(b), width), NormYOf(CenterY(b), height)>>

NormX(cx) == NormXOf(cx, FrameW)
NormY(cy) == NormYOf(cy, FrameH)
Normalize(b) == <<NormX(CenterX(b)), NormY(CenterY(b))>>

\* The rotation setup gives the eye (Transform::from_xyz: the identity), as
\* yaw and pitch; see Smoothing for the unit.
AtRest == [yaw |-> 0, pitch |-> 0, n |-> 0]

\* No function is being exercised on its own.
Idle == [fn |-> "none"]

\* face_pos.unwrap_or((0.0, 0.0))
UnwrapOr(v) == IF v.tag = "Some" THEN <<v.x, v.y>> ELSE <<0, 0>>

\* Variant: the slot is created holding the centre of the frame.
InitMain_Centred ==
  /\ dpc = "camera_new"
  /\ fail = "none"
  /\ norm = <<0, 0>>
  /\ lock = "free"
  /\ poisoned = FALSE
  /\ slot = Some(<<0, 0>>)
  /\ rpc = "idle"
  /\ lock_res = "na"
  /\ face_pos = None
  /\ target = <<0, 0>>
  /\ seq = 1
  /\ slot_st = <<0, 0>>
  /\ face_st = <<0, 0>>
  /\ last_pub = None
  /\ ev = "none"
  /\ nfail = 0
  /\ unread = 0
  /\ faces = <<>>
  /\ writes = 0
  /\ ever_pub = FALSE
  /\ rotated = FALSE

\* main, up to and including the spawn of the detection thread
InitMain ==
  /\ dpc = "camera_new"
  /\ fail = "none"
  /\ norm = <<0, 0>>
  /\ lock = "free"
  /\ poisoned = FALSE
  /\ slot = None
  /\ rpc = "idle"
  /\ lock_res = "na"
  /\ face_pos = None
  /\ target = <<0, 0>>
  /\ seq = 1
  /\ slot_st = <<0, 0>>
  /\ face_st = <<0, 0>>
  /\ last_pub = None
  /\ ev = "none"
  /\ nfail = 0
  /\ unread = 0
  /\ faces = <<>>
  /\ writes = 0
  /\ ever_pub = FALSE
  /\ rotated = FALSE

Init ==
  /\ InitMain
  /\ eye = AtRest
  /\ pin = Idle
  /\ pout = Idle

\* ------------------------------------------------- detection thread: startup
renSame == UNCHANGED <<renVars, sideVars>>
memSame == UNCHANGED <<lock, poisoned, slot, slot_st, last_pub, unread>>

\* The thread's closure (lines 29-33) reports an Err and ends.
DetEnd(why) ==
  /\ dpc' = "ended"
  /\ fail' = why

\* Camera::new(CameraIndex::Index(0), camera_format)?
DetCameraNew ==
  /\ dpc = "camera_new"
  /\ \E ok \in BOOLEAN :
       IF ok THEN dpc' = "open_stream" /\ fail' = fail
             ELSE DetEnd("camera_new")
  /\ UNCHANGED <<norm, seq, ev, nfail, faces, writes, ever_pub>>
  /\ memSame /\ renSame

\* Variant: the result of open_stream is reported but not returned.
DetOpenStream_Ignore ==
  /\ dpc = "open_stream"
  /\ \E ok \in BOOLEAN :
       /\ dpc' = "model_check"
       /\ fail' = IF ok THEN fail ELSE "open_stream"
  /\ UNCHANGED <<norm, seq, ev, nfail, faces, writes, ever_pub>>
  /\ memSame /\ renSame

\* camera.open_stream()?
DetOpenStream ==
  /\ dpc = "open_stream"
  /\ \E ok \in BOOLEAN :
       IF ok THEN dpc' = "model_check" /\ fail' = fail
             ELSE DetEnd("open_stream")
  /\ UNCHANGED <<norm, seq, ev, nfail, faces, writes, ever_pub>>
  /\ memSame /\ renSame

\* if !Path::new(model_path).exists()
DetModelCheck ==
  /\ dpc = "model_check"
  /\ \E exists \in BOOLEAN :
       dpc' = IF exists THEN "create_detector" ELSE "curl"
  /\ UNCHANGED <<fail, norm, seq, ev, nfail, faces, writes, ever_pub>>
  /\ memSame /\ renSame

\* Variant: an unsuccessful exit status is reported without the return.
DetCurl_NoReturn ==
  /\ dpc = "curl"
  /\ \E r \in {"spawn_err", "status_err", "ok"} :
       CASE r = "spawn_err"  -> dpc' = "panicked" /\ fail' = "curl_spawn"
         [] r = "status_err" -> dpc' = "create_detector" /\ fail' = "curl_status"
         [] OTHER            -> dpc' = "create_detector" /\ fail' = fail
  /\ UNCHANGED <<norm, seq, ev, nfail, faces, writes, ever_pub>>
  /\ memSame /\ renSame

\* Command::new("curl")...output().expect(..), then response.status.success().
\* "spawn_err": the command cannot be started and expect panics, which unwinds
\* this thread only; "status_err": curl exits unsuccessfully and the function
\* returns Ok(()); "ok": the loader runs next on whatever file curl left.
DetCurl ==
  /\ dpc = "curl"
  /\ \E r \in {"spawn_err", "status_err", "ok"} :
       CASE r = "spawn_err"  -> dpc' = "panicked" /\ fail' = "curl_spawn"
         [] r = "status_err" -> DetEnd("curl_status")
         [] OTHER            -> dpc' = "create_detector" /\ fail' = fail
  /\ UNCHANGED <<norm, seq, ev, nfail, faces, writes, ever_pub>>
  /\ memSame /\ renSame

\* rustface::create_detector(model_path)? and the four setters
DetCreateDetector ==
  /\ dpc = "create_detector"
  /\ \E ok \in BOOLEAN :
       IF ok THEN dpc' = "capture" /\ fail' = fail
             ELSE DetEnd("detector")
  /\ UNCHANGED <<norm, seq, ev, nfail, faces, writes, ever_pub>>
  /\ memSame /\ renSame

\* ---------------------------------------------------- detection thread: loop
InLoop(pc) == pc \in {"capture", "sleep100", "decode", "detect", "first", "lock_some",
                      "lock_none", "write_x", "write_y", "write_none",
                      "unlock_some", "unlock_none", "log", "sleep33"}

\* camera.frame() is Ok; frame_count += 1
DetCaptureOk ==
  /\ dpc = "capture"
  /\ dpc' = "decode"
  /\ ev' = "frame"
  /\ nfail' = 0
  /\ UNCHANGED <<fail, norm, seq, faces, writes, ever_pub>>
  /\ memSame /\ renSame

\* Variant: the capture error is propagated with ? and ends the thread.
DetCaptureErr_Exit ==
  /\ dpc = "capture"
  /\ dpc' = "ended"
  /\ ev' = "capture_err"
  /\ nfail' = IF nfail < MaxFails THEN nfail + 1 ELSE nfail
  /\ UNCHANGED <<fail, norm, seq, faces, writes, ever_pub>>
  /\ memSame /\ renSame

\* camera.frame() is Err: report, then sleep 100 ms
DetCaptureErr ==
  /\ dpc = "capture"
  /\ dpc' = "sleep100"
  /\ ev' = "capture_err"
  /\ nfail' = IF nfail < MaxFails THEN nfail + 1 ELSE nfail
  /\ UNCHANGED <<fail, norm, seq, faces, writes, ever_pub>>
  /\ memSame /\ renSame

\* Variant: the position is cleared while the retry delay runs.
DetSleep100_Clear ==
  /\ dpc = "sleep100"
  /\ dpc' = "capture"
  /\ slot' = None
  /\ UNCHANGED <<fail, norm, seq, ev, nfail, faces, writes, ever_pub>>
  /\ UNCHANGED <<lock, poisoned, slot_st, last_pub, unread>>
  /\ renSame

\* thread::sleep(100 ms); continue
DetSleep100 ==
  /\ dpc = "sleep100"
  /\ dpc' = "capture"
  /\ UNCHANGED <<fail, norm, seq, ev, nfail, faces, writes, ever_pub>>
  /\ memSame /\ renSame

\* frame.decode_image() is Ok
DetDecodeOk ==
  /\ dpc = "decode"
  /\ dpc' = "detect"
  /\ UNCHANGED <<fail, norm, seq, ev, nfail, faces, writes, ever_pub>>
  /\ memSame /\ renSame

\* Variant: a frame that cannot be decoded clears the position.
DetDecodeErr_Clear ==
  /\ dpc = "decode"
  /\ dpc' = "capture"
  /\ ev' = "decode_err"
  /\ slot' = None
  /\ UNCHANGED <<fail, norm, seq, nfail, faces, writes, ever_pub>>
  /\ UNCHANGED <<lock, poisoned, slot_st, last_pub, unread>>
  /\ renSame

\* frame.decode_image() is Err: report; continue
DetDecodeErr ==
  /\ dpc = "decode"
  /\ dpc' = "capture"
  /\ ev' = "decode_err"
  /\ UNCHANGED <<fail, norm, seq, nfail, faces, writes, ever_pub>>
  /\ memSame /\ renSame

\* create_gray_data and detector.detect(&gray_image)
DetDetect ==
  /\ dpc = "detect"
  /\ \E fs \in FaceLists : faces' = fs
  /\ dpc' = "first"
  /\ UNCHANGED <<fail, norm, seq, ev, nfail, writes, ever_pub>>
  /\ memSame /\ renSame

\* Variant: the last region is used.
DetFirst_Last ==
  /\ dpc = "first"
  /\ IF Len(faces) > 0
       THEN /\ norm' = Normalize(faces[Len(faces)])
            /\ dpc' = "lock_some"
       ELSE /\ norm' = norm
            /\ dpc' = "lock_none"
  /\ faces' = <<>>
  /\ UNCHANGED <<fail, seq, ev, nfail, writes, ever_pub>>
  /\ memSame /\ renSame

\* if let Some(face) = faces.first(): the centre of its bbox and the
\* normalisation.  The list is not read again and is not kept.
DetFirst ==
  /\ dpc = "first"
  /\ IF Len(faces) > 0
       THEN /\ norm' = Normalize(faces[1])
            /\ dpc' = "lock_some"
       ELSE /\ norm' = norm
            /\ dpc' = "lock_none"
  /\ faces' = <<>>
  /\ UNCHANGED <<fail, seq, ev, nfail, writes, ever_pub>>
  /\ memSame /\ renSame

\* Variant: the slot is accessed without waiting for the other guard.
CanLock_NoWait == TRUE

\* Mutex::lock returns once no other guard exists.
CanLock == lock = "free"

\* face_position.position.lock() on both branches (lines 136, 145).  On a
\* poisoned mutex lock() is an Err, the if-let body is skipped and the guard
\* inside the error is dropped at once.
DetLock ==
  /\ dpc \in {"lock_some", "lock_none"}
  /\ CanLock
  /\ IF poisoned
       THEN /\ lock' = lock
            /\ dpc' = IF dpc = "lock_some" THEN "log" ELSE "sleep33"
       ELSE /\ lock' = "det"
            /\ dpc' = IF dpc = "lock_some" THEN "write_x" ELSE "write_none"
  /\ UNCHANGED <<fail, norm, seq, ev, nfail, faces, writes, ever_pub>>
  /\ UNCHANGED <<poisoned, slot, slot_st, last_pub, unread>>
  /\ renSame

\* *pos = Some((norm_x, norm_y)), first word
DetWriteX ==
  /\ dpc = "write_x"
  /\ slot' = [slot EXCEPT !.tag = "Some", !.x = norm[1]]
  /\ slot_st' = <<seq, slot_st[2]>>
  /\ dpc' = "write_y"
  /\ ever_pub' = TRUE
  /\ UNCHANGED <<fail, norm, seq, ev, nfail, faces, writes>>
  /\ UNCHANGED <<lock, poisoned, last_pub, unread>>
  /\ renSame

\* *pos = Some((norm_x, norm_y)), second word
DetWriteY ==
  /\ dpc = "write_y"
  /\ slot' = [slot EXCEPT !.y = norm[2]]
  /\ slot_st' = <<slot_st[1], seq>>
  /\ last_pub' = Some(norm)
  /\ seq' = 1 - seq
  /\ unread' = IF unread < MaxUnread THEN unread + 1 ELSE unread
  /\ ev' = "published"
  /\ dpc' = "unlock_some"
  /\ writes' = writes + 1
  /\ UNCHANGED <<fail, norm, nfail, faces, ever_pub>>
  /\ UNCHANGED <<lock, poisoned>>
  /\ renSame

\* Variant: an empty result leaves the position in place.
DetWriteNone_Stale ==
  /\ dpc = "write_none"
  /\ last_pub' = None
  /\ seq' = 1 - seq
  /\ unread' = IF unread < MaxUnread THEN unread + 1 ELSE unread
  /\ ev' = "published"
  /\ dpc' = "unlock_none"
  /\ writes' = writes + 1
  /\ ever_pub' = TRUE
  /\ UNCHANGED <<fail, norm, nfail, faces>>
  /\ UNCHANGED <<lock, poisoned, slot, slot_st>>
  /\ renSame

\* *pos = None
DetWriteNone ==
  /\ dpc = "write_none"
  /\ slot' = None
  /\ slot_st' = <<seq, seq>>
  /\ last_pub' = None
  /\ seq' = 1 - seq
  /\ unread' = IF unread < MaxUnread THEN unread + 1 ELSE unread
  /\ ev' = "published"
  /\ dpc' = "unlock_none"
  /\ writes' = writes + 1
  /\ ever_pub' = TRUE
  /\ UNCHANGED <<fail, norm, nfail, faces>>
  /\ UNCHANGED <<lock, poisoned>>
  /\ renSame

\* Variant: the guard outlives the if-let body.
DetUnlock_Keep ==
  /\ dpc \in {"unlock_some", "unlock_none"}
  /\ lock' = lock
  /\ dpc' = IF dpc = "unlock_some" THEN "log" ELSE "sleep33"
  /\ UNCHANGED <<fail, norm, seq, ev, nfail, faces, writes, ever_pub>>
  /\ UNCHANGED <<poisoned, slot, slot_st, last_pub, unread>>
  /\ renSame

\* the guard pos is dropped at the end of the if-let body
DetUnlock ==
  /\ dpc \in {"unlock_some", "unlock_none"}
  /\ lock' = "free"
  /\ dpc' = IF dpc = "unlock_some" THEN "log" ELSE "sleep33"
  /\ UNCHANGED <<fail, norm, seq, ev, nfail, faces, writes, ever_pub>>
  /\ UNCHANGED <<poisoned, slot, slot_st, last_pub, unread>>
  /\ renSame

\* if frame_count % 60 == 0 { println!(..) }: printing changes no state
DetLog ==
  /\ dpc = "log"
  /\ \E due \in BOOLEAN : dpc' = "sleep33"
  /\ UNCHANGED <<fail, norm, seq, ev, nfail, faces, writes, ever_pub>>
  /\ memSame /\ renSame

\* thread::sleep(33 ms); the iteration's locals go out of scope and the
\* count of its assignments starts again
DetSleep33 ==
  /\ dpc = "sleep33"
  /\ dpc' = "capture"
  /\ norm' = <<0, 0>>
  /\ writes' = 0
  /\ UNCHANGED <<fail, seq, ev, nfail, faces, ever_pub>>
  /\ memSame /\ renSame

DetNext ==
  \/ DetCameraNew \/ DetOpenStream \/ DetModelCheck \/ DetCurl
  \/ DetCreateDetector
  \/ DetCaptureOk \/ DetCaptureErr \/ DetSleep100 \/ DetDecodeOk \/ DetDecodeErr
  \/ DetDetect \/ DetFirst \/ DetLock \/ DetWriteX \/ DetWriteY \/ DetWriteNone
  \/ DetUnlock \/ DetLog \/ DetSleep33

\* ------------------------------------------------------------- render tick
detSame == UNCHANGED <<detVars, sideVars>>

\* the host calls eye_follow_face for this frame
RenTick ==
  /\ rpc = "idle"
  /\ rpc' = "lock"
  /\ rotated' = FALSE
  /\ UNCHANGED <<lock_res, face_pos, target, face_st>>
  /\ memSame /\ detSame

\* Variant: a poisoned mutex is read all the same (PoisonError::into_inner).
RenLock_IntoInner ==
  /\ rpc = "lock"
  /\ CanLock
  /\ IF poisoned
       THEN /\ lock' = lock
            /\ lock_res' = "err"
            /\ face_pos' = slot
            /\ rpc' = "compute"
       ELSE /\ lock' = "ren"
            /\ lock_res' = "ok"
            /\ face_pos' = face_pos
            /\ rpc' = "copy_x"
  /\ UNCHANGED <<target, face_st, rotated>>
  /\ UNCHANGED <<poisoned, slot, slot_st, last_pub, unread>>
  /\ detSame

\* if let Ok(pos) = face_position.position.lock() { .. } else { None }
RenLock ==
  /\ rpc = "lock"
  /\ CanLock
  /\ IF poisoned
       THEN /\ lock' = lock
            /\ lock_res' = "err"
            /\ face_pos' = None
            /\ rpc' = "compute"
       ELSE /\ lock' = "ren"
            /\ lock_res' = "ok"
            /\ face_pos' = face_pos
            /\ rpc' = "copy_x"
  /\ UNCHANGED <<target, face_st, rotated>>
  /\ UNCHANGED <<poisoned, slot, slot_st, last_pub, unread>>
  /\ detSame

\* *pos, first word
RenCopyX ==
  /\ rpc = "copy_x"
  /\ face_pos' = [face_pos EXCEPT !.tag = slot.tag, !.x = slot.x]
  /\ face_st' = <<slot_st[1], face_st[2]>>
  /\ rpc' = "copy_y"
  /\ UNCHANGED <<lock_res, target, rotated>>
  /\ memSame /\ detSame

\* Variant: the read takes the value out of the slot (Option::take).
RenCopyY_Take ==
  /\ rpc = "copy_y"
  /\ face_pos' = [face_pos EXCEPT !.y = slot.y]
  /\ face_st' = <<face_st[1], slot_st[2]>>
  /\ rpc' = "unlock"
  /\ slot' = None
  /\ UNCHANGED <<lock_res, target, rotated>>
  /\ UNCHANGED <<lock, poisoned, slot_st, last_pub, unread>>
  /\ detSame

\* *pos, second word
RenCopyY ==
  /\ rpc = "copy_y"
  /\ face_pos' = [face_pos EXCEPT !.y = slot.y]
  /\ face_st' = <<face_st[1], slot_st[2]>>
  /\ rpc' = "unlock"
  /\ UNCHANGED <<lock_res, target, rotated>>
  /\ memSame /\ detSame

\* the guard pos is dropped at the end of the if-let
RenUnlock ==
  /\ rpc = "unlock"
  /\ lock' = "free"
  /\ rpc' = "compute"
  /\ unread' = 0
  /\ UNCHANGED <<lock_res, face_pos, target, face_st, rotated>>
  /\ UNCHANGED <<poisoned, slot, slot_st, last_pub>>
  /\ detSame

\* let (norm_x, norm_y) = face_pos.unwrap_or((0.0, 0.0))
RenCompute ==
  /\ rpc = "compute"
  /\ target' = UnwrapOr(face_pos)
  /\ rpc' = "rotate"
  /\ UNCHANGED <<lock_res, face_pos, face_st, rotated>>
  /\ memSame /\ detSame

\* the target angles and the slerp toward them, which assigns the eye's
\* rotation (its value is followed in SmoothTick); the tick returns and its
\* locals go out of scope
RenRotate ==
  /\ rpc = "rotate"
  /\ rpc' = "idle"
  /\ lock_res' = "na"
  /\ face_pos' = None
  /\ face_st' = <<0, 0>>
  /\ target' = <<0, 0>>
  /\ rotated' = TRUE
  /\ memSame /\ detSame

RenNext ==
  \/ RenTick \/ RenLock \/ RenCopyX \/ RenCopyY \/ RenUnlock \/ RenCompute
  \/ RenRotate

Next == DetNext \/ RenNext

Spec == Init /\ [][Next]_vars

\* ------------------------------------------------------------------ fairness
\* Both contexts keep being scheduled, and a context that keeps finding the
\* mutex free at some moment eventually gets it.
Fairness ==
  /\ WF_vars(DetNext) /\ SF_vars(DetLock)
  /\ WF_vars(RenNext) /\ SF_vars(RenLock)

FairSpec == Spec /\ Fairness

\* ------------------------------------------------------------ injected fault
\* A panic while the detection thread holds the guard: unwinding drops the
\* guard, which marks the mutex poisoned, and the thread is gone.  Nothing in
\* run_face_detection panics there; the fault is injected to exercise the
\* Err branches of the two lock() calls.
PoisonFault ==
  /\ lock = "det"
  /\ dpc \in {"write_x", "write_y", "write_none"}
  /\ poisoned' = TRUE
  /\ lock' = "free"
  /\ dpc' = "panicked"
  /\ UNCHANGED <<fail, norm, seq, ev, nfail, faces, writes, ever_pub>>
  /\ UNCHANGED <<slot, slot_st, last_pub, unread>>
  /\ renSame

NextFault == Next \/ PoisonFault

SpecFault == Init /\ [][NextFault]_vars

\* ------------------------------------------------------------ pure functions
\* The functions of the program that depend on their arguments only are
\* exercised on their own: pin is drawn at the start, one step applies the
\* function and leaves the result in pout.
mainSame == UNCHANGED <<detVars, renVars, lock, poisoned, slot, slot_st,
                        last_pub, unread>>

\* Normalisation of a region's centre (lines 128-134) for a frame of any
\* size up to MaxDim.  The regions start up to one pixel outside of the frame
\* and are up to one pixel larger than it; width and height are u32, so 0 is
\* a value of the type.
NormInputs ==
  UNION {[fn : {"normalize"}, width : {fw}, height : {fh},
          bbox : [x : (0 - 1)..fw, y : (0 - 1)..fh,
                  w : 0..(fw + 1), h : 0..(fh + 1)]] :
         fw \in 1..MaxDim, fh \in 1..MaxDim}

InitNorm ==
  /\ InitMain
  /\ eye = AtRest
  /\ pin \in NormInputs
  /\ pout = Idle

NormApply ==
  /\ pin.fn = "normalize"
  /\ pout = Idle
  /\ pout' = [fn |-> "normalize",
              nx |-> NormalizeIn(pin.bbox, pin.width, pin.height)[1],
              ny |-> NormalizeIn(pin.bbox, pin.width, pin.height)[2]]
  /\ UNCHANGED <<eye, pin>>
  /\ mainSame

SpecNorm == InitNorm /\ [][NormApply]_vars

\* create_gray_data (lines 155-170).  The weights 0.299, 0.587, 0.114 are kept
\* in thousandths, so the weighted sum of a pixel is WeightedSum / 1000.
WeightR == 299
WeightG == 587
WeightB == 114
WeightedSum(px) == WeightR * px[1] + WeightG * px[2] + WeightB * px[3]

\* Variant: the sum is rounded to the nearest integer.
GrayOutcomes_Round(px) == {(WeightedSum(px) + 500) \div 1000}

\* (0.299 * r + 0.587 * g + 0.114 * b) as u8: the cast drops the fraction.
\* The sum is formed in f32, whose rounding error is far below a thousandth,
\* so the result is the integer part of the exact sum unless that sum is a
\* whole number, which the f32 sum may miss from below (37, 37, 37 gives 36):
\* both outcomes are drawn there.  The sum never exceeds 255, the cast's
\* saturation is not reached.
GrayOutcomes(px) ==
  IF WeightedSum(px) % 1000 = 0 /\ WeightedSum(px) > 0
    THEN {WeightedSum(px) \div 1000, (WeightedSum(px) \div 1000) - 1}
    ELSE {WeightedSum(px) \div 1000}

\* Channel values of the pixels drawn.
ChanVals == {0, 37, 255}
Pixels == [1..3 -> ChanVals]

\* An RGB buffer of width * height pixels, of up to MaxPixels pixels.
GrayDims == {d \in (0..MaxPixels) \X (0..MaxPixels) : d[1] * d[2] <= MaxPixels}
GrayInputs ==
  UNION {[fn : {"gray"}, width : {d[1]}, height : {d[2]},
          rgb : [1..(d[1] * d[2]) -> Pixels]] : d \in GrayDims}

InitGray ==
  /\ InitMain
  /\ eye = AtRest
  /\ pin \in GrayInputs
  /\ pout = Idle

\* for i in 0..(width * height) { .. gray_data.push(gray_val) }
GrayApply ==
  /\ pin.fn = "gray"
  /\ pout = Idle
  /\ \E low \in [1..(pin.width * pin.height) -> BOOLEAN] :
       pout' = [fn |-> "gray",
                data |-> [i \in 1..(pin.width * pin.height) |->
                            LET out == GrayOutcomes(pin.rgb[i])
                            IN  IF low[i] THEN CHOOSE v \in out : \A u \in out : v <= u
                                          ELSE CHOOSE v \in out : \A u \in out : u <= v]]
  /\ UNCHANGED <<eye, pin>>
  /\ mainSame

SpecGray == InitGray /\ [][GrayApply]_vars

\* ------------------------------------------------------------------ the gaze
\* Angles are counted in twelfths of pi: max_yaw = PI / 4 is 3 and
\* max_pitch = PI / 6 is 2.  A target angle is a numerator over the frame's
\* width (yaw) or height (pitch), like the coordinate it comes from.
MaxYaw == 3
MaxPitch == 2

\* Variant: the eye turns the way the coordinate points.
TargetYaw_SameSign(np) == np[1] * MaxYaw

\* target_yaw = -norm_x * max_yaw; target_pitch = norm_y * max_pitch
TargetYaw(np) == 0 - (np[1] * MaxYaw)
TargetPitch(np) == np[2] * MaxPitch

\* The end-to-end example of the specification: a 100x100 frame with the
\* region (40, 30, 20, 20).
Example ==
  [fn |-> "normalize", width |-> 100, height |-> 100,
   bbox |-> [x |-> 40, y |-> 30, w |-> 20, h |-> 20]]

\* From a detected region to the target angles: the region's normalised centre
\* is published, read back and unwrapped, and the angles are derived from it.
GazeInputs == {[i EXCEPT !.fn = "gaze"] : i \in NormInputs \cup {Example}}

InitGaze ==
  /\ InitMain
  /\ eye = AtRest
  /\ pin \in GazeInputs
  /\ pout = Idle

GazeApply ==
  /\ pin.fn = "gaze"
  /\ pout = Idle
  /\ LET pos == Some(NormalizeIn(pin.bbox, pin.width, pin.height))
         np == UnwrapOr(pos)
     IN  pout' = [fn |-> "gaze", nx |-> np[1], ny |-> np[2],
                  yaw |-> TargetYaw(np), pitch |-> TargetPitch(np)]
  /\ UNCHANGED <<eye, pin>>
  /\ mainSame

SpecGaze == InitGaze /\ [][GazeApply]_vars

\* ---------------------------------------------------------------- smoothing
\* transform.rotation.slerp(target_rotation, 0.15) turns the eye 0.15 of the
\* remaining angle toward the target rotation.  The orientation is kept as
\* the pair (yaw, pitch) and each angle is blended by that factor, which is
\* slerp itself for a rotation about one axis.  0.15 is BlendNum / BlendDen,
\* and an angle is the numerator eye.yaw (eye.pitch) over the frame's width
\* (height) times BlendDen^eye.n, exact after eye.n ticks.
BlendNum == 3
BlendDen == 20

Pow(b, n) ==
  LET p[k \in 0..n] == IF k = 0 THEN 1 ELSE b * p[k - 1]
  IN  p[n]

\* Variant: the blend factor is 0, the eye keeps its rotation.
Blend_Hold(cur, tgt, n) == BlendDen * cur

\* Variant: the blend factor is 1.15.
Blend_Over(cur, tgt, n) ==
  (BlendDen + BlendNum) * tgt * Pow(BlendDen, n) - BlendNum * cur

\* cur + 0.15 * (tgt - cur), over BlendDen^(n + 1)
Blend(cur, tgt, n) ==
  (BlendDen - BlendNum) * cur + BlendNum * tgt * Pow(BlendDen, n)

\* Variant: without a position the eye looks at a corner.
Sampled_Corner(v) == IF v.tag = "Some" THEN <<v.x, v.y>> ELSE <<FrameW, FrameH>>

\* face_pos.unwrap_or((0.0, 0.0)) of the value the tick has read
Sampled(v) == UnwrapOr(v)

\* What the slot may hold between two publishes.
Published == {None} \cup {Some(Normalize(b)) : b \in Rects}

\* Orientations within the limits of the gaze, in whole units.
StartEyes == [yaw : (0 - (MaxYaw * FrameW))..(MaxYaw * FrameW),
              pitch : (0 - (MaxPitch * FrameH))..(MaxPitch * FrameH),
              n : {0}]

\* The detection thread is in its delay after a publish and stays there: the
\* slot holds the same value on every tick.  pin keeps the orientation the
\* ticks start from.
InitSmooth ==
  /\ \E v \in Published :
       /\ slot = v /\ last_pub = v
       /\ norm = UnwrapOr(v)
  /\ dpc = "sleep33" /\ fail = "none" /\ ev = "published" /\ nfail = 0
  /\ faces = <<>> /\ writes = 1 /\ ever_pub = TRUE
  /\ seq = 0 /\ slot_st = <<1, 1>> /\ unread = 1
  /\ lock = "free" /\ poisoned = FALSE
  /\ rpc = "idle" /\ lock_res = "na" /\ face_pos = None /\ target = <<0, 0>>
  /\ face_st = <<0, 0>> /\ rotated = FALSE
  /\ eye \in StartEyes
  /\ pin = [fn |-> "smooth", start |-> eye]
  /\ pout = Idle

\* One call of eye_follow_face (lines 230-261) as a single step: lock, copy,
\* unlock, unwrap, target angles, slerp.
SmoothTick ==
  /\ pin.fn = "smooth"
  /\ rpc = "idle"
  /\ CanLock
  /\ eye.n < MaxTicks
  /\ LET np == Sampled(IF poisoned THEN None ELSE slot)
     IN  eye' = [yaw |-> Blend(eye.yaw, TargetYaw(np), eye.n),
                 pitch |-> Blend(eye.pitch, TargetPitch(np), eye.n),
                 n |-> eye.n + 1]
  /\ rotated' = TRUE
  /\ unread' = IF poisoned THEN unread ELSE 0
  /\ UNCHANGED <<rpc, lock_res, face_pos, target, face_st>>
  /\ UNCHANGED <<lock, poisoned, slot, slot_st, last_pub>>
  /\ UNCHANGED <<detVars, pin, pout>>

SpecSmooth == InitSmooth /\ [][SmoothTick]_vars

\* The host runs the Update systems on every frame.
FairSmooth == SpecSmooth /\ WF_vars(SmoothTick)

\* ================================================================== claims
DetCS == dpc \in {"write_x", "write_y", "write_none", "unlock_some", "unlock_none"}
RenCS == rpc \in {"copy_x", "copy_y", "unlock"}
HasRead == rpc \in {"unlock", "compute", "rotate"} /\ lock_res = "ok"
StartupFailures == {"camera_new", "open_stream", "curl_spawn", "curl_status", "detector"}
LoopFailures == {"capture_err", "decode_err"}

\* C1: the two contexts are never inside the slot's critical section together,
\* and the value a render tick has read is whole: its tag and both
\* coordinates come from one publish (or from the initial None), never from
\* two different writes.
C1_WholeRead ==
  /\ ~(DetCS /\ RenCS)
  /\ HasRead =>
       /\ face_st[1] = face_st[2]
       /\ (face_pos.tag = "None" => face_pos = None)

C1_Witness ==
  /\ rpc = "unlock" /\ lock_res = "ok"
  /\ face_pos.tag = "Some"
  /\ dpc = "lock_some"
  /\ norm # <<face_pos.x, face_pos.y>>

\* C2: when a render tick has copied the slot, what it holds is exactly the
\* value of the most recent completed publish, however many publishes
\* completed since the previous read.
C2_Fresh ==
  (rpc = "unlock" /\ lock_res = "ok") => face_pos = last_pub

C2_Witness ==
  /\ rpc = "unlock" /\ lock_res = "ok"
  /\ unread = MaxUnread
  /\ face_pos.tag = "Some"
  /\ dpc = "lock_none"

\* C3 (as stated): while a startup failure or a capture or decode failure
\* lasts, the value a render tick reads is absent.
C3_AllFailuresAbsent ==
  (HasRead /\ (fail \in StartupFailures \/ ev \in LoopFailures))
    => face_pos.tag = "None"

\* C3 (amended): after a startup failure the value a render tick reads is
\* absent; while a capture or decode failure lasts the tick reads what the
\* last completed cycle published, present or absent.
C3_Degrade ==
  /\ (HasRead /\ fail \in StartupFailures) => face_pos = None
  /\ (rpc = "unlock" /\ lock_res = "ok" /\ ev \in LoopFailures)
       => (face_pos = last_pub /\ slot = last_pub)

C3_Witness ==
  /\ rpc = "unlock" /\ lock_res = "ok"
  /\ ev = "capture_err"
  /\ face_pos.tag = "Some"

C5_CameraFailure ==
  fail \in {"camera_new", "open_stream"} =>
    /\ dpc = "ended"
    /\ ev = "none"
    /\ slot = None /\ last_pub = None
    /\ HasRead => face_pos = None
    /\ rpc = "rotate" => target = <<0, 0>>
    /\ ENABLED RenNext

C5_Witness ==
  /\ fail = "open_stream"
  /\ rpc = "rotate" /\ lock_res = "ok"

\* C6: if fetching the model fails (curl cannot be started, curl exits
\* unsuccessfully, or the detector cannot load the file), the detection
\* thread is over without having written the slot, the slot is and stays
\* None, and the render context reads None and can take its next step.
C6_ModelFailure ==
  fail \in {"curl_spawn", "curl_status", "detector"} =>
    /\ dpc \in {"ended", "panicked"}
    /\ ev = "none"
    /\ slot = None /\ last_pub = None
    /\ HasRead => face_pos = None
    /\ rpc = "rotate" => target = <<0, 0>>
    /\ ENABLED RenNext

C6_Witness ==
  /\ fail = "curl_spawn"
  /\ dpc = "panicked"
  /\ rpc = "rotate" /\ lock_res = "ok"

\* C7: the step in which decoding fails leaves the slot, its last published
\* value and the mutex as they are, does not run detection, and puts the
\* loop back at the capture.
C7_DecodeSkip ==
  [][(dpc = "decode" /\ ev' = "decode_err")
       => /\ slot' = slot /\ last_pub' = last_pub /\ lock' = lock
          /\ dpc' = "capture"]_vars

C7_Witness ==
  /\ ev = "decode_err"
  /\ dpc = "capture"
  /\ slot.tag = "Some"

\* C8: when lock() fails in a render tick because the mutex is poisoned, the
\* tick holds None, does not copy the slot, uses the target (0, 0) and goes
\* on to its end; once the mutex is poisoned no tick is inside the critical
\* section and the render context can always take its next step.
C8_PoisonedRead ==
  /\ lock_res = "err" =>
       /\ rpc \in {"compute", "rotate"}
       /\ face_pos = None
       /\ rpc = "rotate" => target = <<0, 0>>
  /\ poisoned =>
       /\ ~RenCS
       /\ ENABLED RenNext

C8_Witness ==
  /\ poisoned
  /\ lock_res = "err" /\ rpc = "rotate"
  /\ slot.tag = "Some" /\ slot_st[1] # slot_st[2]

\* C9: the mutex is held only while its holder is at the assignment or the
\* copy (or at the release that follows), never during capture, detection,
\* a sleep or logging; under fair scheduling a held mutex is always released,
\* and a publish or a read that waits for it always gets it.
C9_BoundedSection ==
  /\ [](lock = "det" => DetCS)
  /\ [](lock = "ren" => RenCS)
  /\ (lock # "free") ~> (lock = "free")
  /\ (dpc \in {"lock_some", "lock_none"}) ~> DetCS
  /\ (rpc = "lock") ~> RenCS

C9_Witness ==
  /\ lock = "ren"
  /\ dpc \in {"lock_some", "lock_none"}

\* C10 (as stated): a present slot holds coordinates in [-1, 1], that is
\* numerators within the frame's width and height.
C10_SlotInRange ==
  slot.tag = "Some" =>
    /\ 0 - FrameW <= slot.x /\ slot.x <= FrameW
    /\ 0 - FrameH <= slot.y /\ slot.y <= FrameH

\* ---------------------------------------------------------------------- C11
\* The region lies fully inside the frame.
InFrame(i) ==
  /\ 0 <= i.bbox.x /\ i.bbox.x + i.bbox.w <= i.width
  /\ 0 <= i.bbox.y /\ i.bbox.y + i.bbox.h <= i.height

\* The region is placed symmetrically about the frame's centre.
Centred(i) ==
  /\ 2 * i.bbox.x + i.bbox.w = i.width
  /\ 2 * i.bbox.y + i.bbox.h = i.height

NormRangeAndCorners ==
  /\ 0 - pin.width <= pout.nx /\ pout.nx <= pin.width
  /\ 0 - pin.height <= pout.ny /\ pout.ny <= pin.height
  /\ (CenterX(pin.bbox) = 0 /\ CenterY(pin.bbox) = 0)
       => (pout.nx = 0 - pin.width /\ pout.ny = pin.height)
  /\ (CenterX(pin.bbox) = pin.width /\ CenterY(pin.bbox) = pin.height)
       => (pout.nx = pin.width /\ pout.ny = 0 - pin.height)
  /\ (2 * CenterY(pin.bbox) < pin.height) => pout.ny > 0
  /\ (2 * CenterY(pin.bbox) > pin.height) => pout.ny < 0

\* C11 (as stated): for every region fully inside the frame the normalised
\* position lies in [-1, 1] on both axes, a centre at the top-left corner
\* gives (-1, 1), a centre at the bottom-right corner gives (1, -1), the
\* vertical axis is inverted, and a region centred at the frame centre gives
\* (0, 0).
C11_CentredIsZero ==
  (pout.fn = "normalize" /\ InFrame(pin)) =>
    /\ NormRangeAndCorners
    /\ Centred(pin) => (pout.nx = 0 /\ pout.ny = 0)

\* C11 (amended): as above, except that (0, 0) is the result for a region
\* whose centre as the program computes it (x + w div 2, y + h div 2) is the
\* frame centre; a region placed symmetrically about the frame centre gives
\* 0 on an axis where its size is even and one half pixel toward the top-left
\* (-1/W, 1/H) on an axis where its size is odd.
C11_Normalised ==
  (pout.fn = "normalize" /\ InFrame(pin)) =>
    /\ NormRangeAndCorners
    /\ (2 * CenterX(pin.bbox) = pin.width /\ 2 * CenterY(pin.bbox) = pin.height)
         => (pout.nx = 0 /\ pout.ny = 0)
    /\ Centred(pin) =>
         /\ pout.nx = (IF pin.bbox.w % 2 = 0 THEN 0 ELSE 0 - 1)
         /\ pout.ny = (IF pin.bbox.h % 2 = 0 THEN 0 ELSE 1)

C11_Witness ==
  /\ pout.fn = "normalize" /\ InFrame(pin)
  /\ Centred(pin)
  /\ pin.bbox.w = 2 /\ pin.bbox.h = 1
  /\ pout.nx = 0 /\ pout.ny = 1

\* ---------------------------------------------------------------------- C12
GraySize ==
  /\ Len(pout.data) = pin.width * pin.height
  /\ \A i \in 1..Len(pout.data) : pout.data[i] \in 0..255

\* C12 (as stated): every output value is the weighted sum of its pixel
\* rounded to the nearest integer, lies in 0..255, and the output has
\* width * height entries.
C12_Rounded ==
  pout.fn = "gray" =>
    /\ GraySize
    /\ \A i \in 1..Len(pout.data) :
         LET ws == WeightedSum(pin.rgb[i])
         IN  /\ 2 * (1000 * pout.data[i] - ws) <= 1000
             /\ 2 * (ws - 1000 * pout.data[i]) <= 1000

\* C12 (amended): every output value is the weighted sum of its pixel with
\* the fraction dropped: it is never above the sum and less than one below
\* it, or exactly one below a sum that is a whole number; it lies in 0..255,
\* and the output has width * height entries.
C12_Truncated ==
  pout.fn = "gray" =>
    /\ GraySize
    /\ \A i \in 1..Len(pout.data) :
         LET ws == WeightedSum(pin.rgb[i])
         IN  /\ 1000 * pout.data[i] <= ws
             /\ ws - 1000 * pout.data[i] <= 1000
             /\ (ws % 1000 # 0) => (ws - 1000 * pout.data[i] < 1000)

C12_Witness ==
  /\ pout.fn = "gray"
  /\ pin.width * pin.height = 2
  /\ pin.rgb[1] = <<0, 255, 0>> /\ pout.data[1] = 149
  /\ pin.rgb[2] = <<255, 255, 255>> /\ pout.data[2] = 255

\* ---------------------------------------------------------------------- C13
\* C13: the target yaw is -nx * max_yaw and the target pitch is ny * max_pitch,
\* with max_yaw = pi/4 and max_pitch = pi/6 (3 and 2 twelfths of pi); a
\* position in [-1, 1] x [-1, 1] gives a target within [-max_yaw, max_yaw] x
\* [-max_pitch, max_pitch]; the region (40, 30, 20, 20) of a 100x100 frame
\* gives nx = 0, ny = 0.2, target yaw 0 and target pitch 0.2 * max_pitch.
C13_TargetAngles ==
  pout.fn = "gaze" =>
    /\ 4 * MaxYaw = 12 /\ 6 * MaxPitch = 12
    /\ pout.yaw = 0 - (pout.nx * MaxYaw)
    /\ pout.pitch = pout.ny * MaxPitch
    /\ (pout.nx < 0) = (pout.yaw > 0)
    /\ (pout.ny > 0) = (pout.pitch > 0)
    /\ (/\ 0 - pin.width <= pout.nx /\ pout.nx <= pin.width
        /\ 0 - pin.height <= pout.ny /\ pout.ny <= pin.height)
         => /\ 0 - (MaxYaw * pin.width) <= pout.yaw
            /\ pout.yaw <= MaxYaw * pin.width
            /\ 0 - (MaxPitch * pin.height) <= pout.pitch
            /\ pout.pitch <= MaxPitch * pin.height
    /\ (pin = [Example EXCEPT !.fn = "gaze"])
         => /\ pout.nx = 0
            /\ 10 * pout.ny = 2 * pin.height
            /\ pout.yaw = 0
            /\ 10 * pout.pitch = 2 * (MaxPitch * pin.height)

C13_Witness ==
  /\ pout.fn = "gaze"
  /\ pin = [Example EXCEPT !.fn = "gaze"]
  /\ pout.ny = 20 /\ pout.pitch = 40

\* ---------------------------------------------------------- C14, C15, C16
Abs(k) == IF k < 0 THEN 0 - k ELSE k

\* The target angles of the slot's value, and the distance of the eye from
\* them on each axis, as numerators over BlendDen^eye.n.
GoalYaw == TargetYaw(UnwrapOr(slot))
GoalPitch == TargetPitch(UnwrapOr(slot))
DistYaw == Abs(eye.yaw - GoalYaw * Pow(BlendDen, eye.n))
DistPitch == Abs(eye.pitch - GoalPitch * Pow(BlendDen, eye.n))
StartDistYaw == Abs(pin.start.yaw - GoalYaw)
StartDistPitch == Abs(pin.start.pitch - GoalPitch)

\* The eye is within two thirds of its first distance from the target.
NearGoal ==
  pin.fn = "smooth" =>
    /\ 3 * DistYaw <= 2 * (StartDistYaw * Pow(BlendDen, eye.n))
    /\ 3 * DistPitch <= 2 * (StartDistPitch * Pow(BlendDen, eye.n))

\* The eye is within two thirds of its first distance from rest.
NearRest ==
  pin.fn = "smooth" =>
    /\ 3 * Abs(eye.yaw) <= 2 * (Abs(pin.start.yaw) * Pow(BlendDen, eye.n))
    /\ 3 * Abs(eye.pitch) <= 2 * (Abs(pin.start.pitch) * Pow(BlendDen, eye.n))

\* C14: with the same value in the slot on every tick, every tick brings the
\* eye closer to the target on each axis on which it is not there yet (and
\* keeps it there otherwise): the distance after n ticks is (1 - 0.15)^n of
\* the first one, and it eventually falls below a given fraction of it (two
\* thirds, within MaxTicks ticks).
C14_Converges ==
  /\ [][(pin.fn = "smooth" /\ eye' # eye) =>
          /\ IF DistYaw > 0 THEN DistYaw' < BlendDen * DistYaw ELSE DistYaw' = 0
          /\ IF DistPitch > 0 THEN DistPitch' < BlendDen * DistPitch
                               ELSE DistPitch' = 0]_vars
  /\ [](pin.fn = "smooth" =>
         /\ DistYaw = StartDistYaw * Pow(BlendDen - BlendNum, eye.n)
         /\ DistPitch = StartDistPitch * Pow(BlendDen - BlendNum, eye.n))
  /\ (pin.fn = "smooth") ~> (eye.n > 0 /\ NearGoal)

C14_Witness ==
  /\ pin.fn = "smooth" /\ eye.n = MaxTicks
  /\ slot.tag = "Some" /\ GoalYaw > 0 /\ GoalPitch > 0
  /\ pin.start.yaw < 0 /\ pin.start.pitch < 0
  /\ DistYaw > 0 /\ DistPitch > 0

\* C15: starting from rest with a constant positive target on an axis, the
\* angle on that axis is between 0 and the target after every tick.
C15_NoOvershoot ==
  (pin.fn = "smooth" /\ pin.start.yaw = 0 /\ pin.start.pitch = 0) =>
    /\ GoalYaw > 0 =>
         (0 <= eye.yaw /\ eye.yaw <= GoalYaw * Pow(BlendDen, eye.n))
    /\ GoalPitch > 0 =>
         (0 <= eye.pitch /\ eye.pitch <= GoalPitch * Pow(BlendDen, eye.n))

C15_Witness ==
  /\ pin.fn = "smooth" /\ pin.start.yaw = 0 /\ pin.start.pitch = 0
  /\ eye.n = MaxTicks
  /\ GoalYaw > 0 /\ GoalPitch > 0
  /\ 0 < eye.yaw /\ eye.yaw < GoalYaw * Pow(BlendDen, eye.n)
  /\ 0 < eye.pitch /\ eye.pitch < GoalPitch * Pow(BlendDen, eye.n)

\* C16: when the slot is absent the target position of a tick is (0, 0);
\* every tick with an absent slot brings each angle of the eye closer to 0
\* without changing its sign, whatever the orientation before, and the angles
\* eventually fall below a given fraction of what they were (two thirds,
\* within MaxTicks ticks).
C16_Idle ==
  /\ [][(pin.fn = "smooth" /\ slot = None /\ eye' # eye) =>
          /\ Sampled(slot) = <<0, 0>>
          /\ IF eye.yaw # 0 THEN /\ Abs(eye.yaw') < BlendDen * Abs(eye.yaw)
                                  /\ (eye.yaw' > 0) = (eye.yaw > 0)
                             ELSE eye.yaw' = 0
          /\ IF eye.pitch # 0 THEN /\ Abs(eye.pitch') < BlendDen * Abs(eye.pitch)
                                    /\ (eye.pitch' > 0) = (eye.pitch > 0)
                               ELSE eye.pitch' = 0]_vars
  /\ (pin.fn = "smooth" /\ slot = None) ~> (eye.n > 0 /\ NearRest)

C16_Witness ==
  /\ pin.fn = "smooth" /\ slot = None
  /\ eye.n = MaxTicks
  /\ pin.start.yaw = MaxYaw * FrameW /\ pin.start.pitch = 0 - (MaxPitch * FrameH)
  /\ eye.yaw > 0 /\ eye.pitch < 0

\* ---------------------------------------------------------------------- C17
\* C17: as long as the detection thread has not assigned to the slot, the
\* slot is None, as main created it before spawning the thread, and a render
\* tick that reads it holds None and uses the target (0, 0).
C17_AbsentUntilPublished ==
  /\ (dpc \in {"camera_new", "open_stream", "model_check", "curl",
                "create_detector"}) => ~ever_pub
  /\ ~ever_pub =>
       /\ slot = None /\ last_pub = None
       /\ HasRead => face_pos = None
       /\ rpc = "rotate" => target = <<0, 0>>

C17_Witness ==
  /\ ~ever_pub
  /\ dpc = "lock_some" /\ norm # <<0, 0>>
  /\ rpc = "rotate" /\ lock_res = "ok"

\* ---------------------------------------------------------------------- C18
\* C18 (as stated): whenever the loop comes back to the capture, it comes
\* from one of its two delays, on every path through the iteration.
C18_DelayBeforeCapture ==
  [][(InLoop(dpc) /\ dpc # "capture" /\ dpc' = "capture")
       => dpc \in {"sleep100", "sleep33"}]_vars

\* ---------------------------------------------------------------------- C19
\* C19: a cycle whose capture and decode succeeded assigns to the slot exactly
\* once (no assignment before the lock is taken, one when the guard is
\* dropped and until the cycle ends); what it assigns is the normalised
\* centre of the first region, whatever regions follow it, or None when there
\* is no region, whatever the slot held; and the thread stays in its loop
\* with no failure recorded.
C19_OneWritePerCycle ==
  /\ [](/\ dpc \in {"capture", "sleep100", "decode", "detect", "first",
                      "lock_some", "lock_none", "write_x", "write_y",
                      "write_none"} => writes = 0
        /\ dpc \in {"unlock_some", "unlock_none", "log", "sleep33"} => writes = 1
        /\ dpc = "unlock_some" => (slot = Some(norm) /\ last_pub = slot)
        /\ dpc = "unlock_none" => (slot = None /\ last_pub = slot)
        /\ InLoop(dpc) => fail = "none")
  /\ [][(dpc = "first" /\ dpc' # dpc) =>
          IF Len(faces) > 0
            THEN dpc' = "lock_some" /\ norm' = Normalize(faces[1])
            ELSE dpc' = "lock_none"]_vars
  /\ [][(dpc \in {"unlock_some", "unlock_none", "log", "sleep33"} /\ dpc' # dpc)
          => (InLoop(dpc') /\ slot' = slot)]_vars

C19_Witness ==
  /\ dpc = "unlock_none" /\ writes = 1
  /\ slot = None
  /\ rpc = "compute" /\ lock_res = "ok" /\ face_pos.tag = "Some"

\* ---------------------------------------------------------------------- C20
\* C20: a step of the render tick leaves the slot, its poison flag and all the
\* state of the detection thread (camera, detector, the cycle's locals) as
\* they are, and what it copies is the slot's content; a step of the
\* detection thread leaves the eye's rotation and the tick's locals as they
\* are.
C20_OneWay ==
  [][/\ (rpc' # rpc) =>
          /\ slot' = slot /\ slot_st' = slot_st /\ poisoned' = poisoned
          /\ UNCHANGED <<dpc, fail, norm, faces>>
          /\ rpc = "copy_x" => (face_pos'.tag = slot.tag /\ face_pos'.x = slot.x)
          /\ rpc = "copy_y" => face_pos'.y = slot.y
     /\ (dpc' # dpc) =>
          UNCHANGED <<rotated, eye, rpc, lock_res, face_pos, target>>]_vars

C20_Witness ==
  /\ rotated /\ rpc = "idle"
  /\ dpc = "unlock_some" /\ slot.tag = "Some"
  /\ unread = MaxUnread

====
